---- MODULE Spec2Model ----
(***************************************************************************)
(* Model of hardwareMonitor (src/main.py, src/webService.py): GitUpdater  *)
(* (boot-time promotion of a staged executable, periodic release check,    *)
(* download), the two writes of a metrics snapshot (table `metrics` and    *)
(* compressed log) and the queries of the dashboard, driven by the loop of *)
(* main().                                                                 *)
(*                                                                         *)
(* Spec is the whole process on a host that does not let the metrics files *)
(* be written; SpecStore is the sampling loop on a host that does;         *)
(* SpecQuery is the dashboard over every table the loop can have built.    *)
(*                                                                         *)
(* The file system is a function from paths to contents.  Strings that the *)
(* code manipulates (release tags, version strings) are sequences of       *)
(* one-character strings, so that lstrip('v') and the "empty file means    *)
(* 0.0.0" rule are computed as the code computes them.                     *)
(***************************************************************************)
EXTENDS Integers, Sequences, FiniteSets, TLC

VARIABLES
    system,             \* platform.system(), fixed for a host
    fs,                 \* the working directory: path -> content
    remote,             \* the release index: tag of the latest release, or NoRelease
    now,                \* wall clock, in model time units
    pc,                 \* position of the process ("off" = not running)
    current_version,    \* GitUpdater.current_version
    latest,             \* local `latest` of check_for_updates
    last_update_check,  \* local of main()
    fs0,                \* history: the file system at installation time
    lastLive,           \* history: the content most recently present at the live path
    promo,              \* history: the promotion attempt of this boot
    chk,                \* the periodic check in progress: the local
                        \* current_time of main() and history of the check
    writable,           \* whether the host lets the metrics files be written
    db,                 \* the rows of table `metrics` of the database
    archive,            \* the lines of the compressed metrics log
    tick,               \* history: the two writes of the current iteration
    run,                \* the dashboard thread, and history of this run
    resp                \* the answer of the dashboard to the last request

vars == <<system, fs, remote, now, pc, current_version, latest,
          last_update_check, fs0, lastLive, promo, chk,
          writable, db, archive, tick, run, resp>>

----------------------------------------------------------------------------
(* Bounds of the model *)

\* The check interval in model time units (CONFIG["check_updates_interval"]
\* is 86400 s; the model counts time in coarse units).
CheckInterval == 1

\* How many time units the clock may advance after installation.
MaxElapsed == 2

----------------------------------------------------------------------------
(* Strings *)

\* The version get_local_version falls back to: "0.0.0".
DefaultVersion == <<"0", ".", "0", ".", "0">>

\* The version string the installation starts with.
InstalledVersion == <<"1">>

\* Tags of the published releases (one of them without the usual prefix).
Tags == { <<"v", "2">>, <<"3">> }

NoRelease == <<"<no release>">>

\* Python's None as the value of `latest`.
None == <<"<None>">>

\* str.lstrip('v'): drop every leading 'v'.
RECURSIVE lstrip_v(_)
lstrip_v(s) ==
    IF s # <<>> /\ Head(s) = "v" THEN lstrip_v(Tail(s)) ELSE s

\* The tag named by the download URL: f".../download/v{version}/...".
url_tag(version) == <<"v">> \o version

----------------------------------------------------------------------------
(* Files *)

Absent == [kind |-> "absent"]
\* An executable file: the release tag it was built for, and whether all of
\* its bytes are there.
Exe(t, c) == [kind |-> "exe", tag |-> t, complete |-> c]
Text(s) == [kind |-> "text", text |-> s]

Systems == {"Linux", "Windows"}

get_executable_name(sys) ==
    IF sys = "Windows" THEN "hardwareMonitor-Windows.exe"
    ELSE IF sys = "Darwin" THEN "hardwareMonitor-macOS"
    ELSE "hardwareMonitor-Linux"

\* A path is a file name followed by the suffix appended to it.
executable_name == <<get_executable_name(system), "">>
temp_update_file == <<get_executable_name(system), ".update">>
backup_name == <<get_executable_name(system), ".backup">>
version_txt == <<"version.txt", "">>

Paths ==
    { <<get_executable_name(s), x>> : s \in Systems, x \in {"", ".update", ".backup"} }
        \cup {version_txt}

exists(f, p) == f[p] # Absent

\* A move that keeps a destination that is already there.
move_keeping_dst(f, src, dst) ==
    IF f[dst] # Absent THEN [f EXCEPT ![src] = Absent]
    ELSE [f EXCEPT ![dst] = f[src], ![src] = Absent]

\* shutil.move(src, dst) between two files of one directory: a rename, which
\* replaces dst.
move(f, src, dst) == [f EXCEPT ![dst] = f[src], ![src] = Absent]

\* A download written straight over the executable.
download_target_live == executable_name

\* The file the download is streamed into: open(self.temp_update_file, "wb").
download_target == temp_update_file

write_file(f, p, c) == [f EXCEPT ![p] = c]

\* A marker that records the tag of the URL instead of the version.
version_marker_tag(version) == Text(<<"v">> \o version)

\* What download_update writes to version.txt: f.write(version).
version_marker(version) == Text(version)

get_local_version(f) ==
    IF f[version_txt].kind = "text" /\ f[version_txt].text # <<>>
    THEN f[version_txt].text
    ELSE DefaultVersion

----------------------------------------------------------------------------
(* The metrics snapshot, the table `metrics` and the compressed log *)

MaxRows == 3        \* rows the database file has room for
MaxArchive == 1     \* lines the compressed log has room for

\* SQL NULL, Python None, JSON null; Value(v) is a column holding v.
NULL == {}
Value(v) == {v}

\* A Python dict as a set of <<key, value>> pairs, and dict.get(key, default).
get(d, key, default) ==
    IF \E kv \in d : kv[1] = key
    THEN (CHOOSE kv \in d : kv[1] = key)[2]
    ELSE default

\* The instants at which the clock is read, <<second, fraction>>.
Instants == {<<1, 0>>, <<1, 5>>, <<2, 0>>}

\* t1 is earlier than t2.
Earlier(t1, t2) == t1[1] < t2[1] \/ (t1[1] = t2[1] /\ t1[2] < t2[2])

Digits == <<"0", "1", "2", "3", "4", "5", "6", "7", "8", "9">>

\* datetime.now().isoformat(): fixed-width fields, and the fraction is left
\* out when it is zero.
isoformat(t) ==
    IF t[2] = 0 THEN <<Digits[t[1] + 1]>>
    ELSE <<Digits[t[1] + 1], ".", Digits[t[2] + 1]>>

\* Code point of a character of a timestamp.
Ord(c) == IF c = "." THEN 46 ELSE 48 + (CHOOSE d \in 0..9 : Digits[d + 1] = c)

\* Order of TEXT values in SQLite (ORDER BY timestamp, MIN(timestamp)).
RECURSIVE TextLess(_, _)
TextLess(a, b) ==
    IF a = <<>> THEN b # <<>>
    ELSE IF b = <<>> THEN FALSE
    ELSE IF Head(a) = Head(b) THEN TextLess(Tail(a), Tail(b))
    ELSE Ord(Head(a)) < Ord(Head(b))

\* Which readings a snapshot gets: all of them, or all but the temperature,
\* or all but the disk usage.
Readings == {[temp |-> TRUE, disk |-> TRUE], [temp |-> FALSE, disk |-> TRUE],
             [temp |-> TRUE, disk |-> FALSE]}

\* The processor load of the host at instant t.
cpu_at(t) == 20 * t[1] + 2 * t[2] - 10

\* get_hardware_metrics at instant t: the temperature is None when no sensor
\* answers, and get_disk_info returns {} when the disk cannot be read.
get_hardware_metrics(t, tempOk, diskOk) ==
    [timestamp |-> isoformat(t),
     cpu_percent |-> cpu_at(t),
     temp_cpu |-> IF tempOk THEN Value(50) ELSE NULL,
     disk |-> IF diskOk THEN {<<"percent", 40>>} ELSE {}]

\* The tuple of values write_metrics_to_db binds to the INSERT.
row_of(metrics) ==
    [timestamp |-> metrics.timestamp,
     cpu_percent |-> Value(metrics.cpu_percent),
     temp_cpu |-> metrics.temp_cpu,
     disk_percent |-> Value(get(metrics.disk, "percent", 0))]

\* A table without the UNIQUE constraint on timestamp.
unique_violation_never(rows, row) == FALSE

\* timestamp TEXT UNIQUE: the INSERT raises sqlite3.IntegrityError.
unique_violation(rows, row) == \E r \in rows : r.timestamp = row.timestamp

\* A write_metrics that lets the failure of the database write out.
after_primary_raises(status) ==
    IF status = "failed" THEN "crashed" ELSE "archive"

\* A write_metrics that gives up the iteration when the database write fails.
after_primary_gives_up(status) ==
    IF status = "failed" THEN "timetest" ELSE "archive"

\* write_metrics: write_metrics_to_db() and then, log_compression being set,
\* write_metrics_compressed(), whatever the first one did.
after_primary(status) == "archive"

----------------------------------------------------------------------------
(* History records *)

NoPromo == [status |-> "none", staged0 |-> Absent, live0 |-> Absent,
            backup0 |-> Absent, last0 |-> Absent]

\* current_time: the value main() read from the clock in the iteration that
\* runs (or last ran) a check; the other fields are history.
\* prev_start: the current_time of the check before this one, 0 when this
\* is the first check of the run.
NoChk == [active |-> FALSE, current_time |-> 0, fs |-> << >>, cv |-> << >>,
          outcome |-> "none", downloads |-> 0, dl |-> "none", prev_start |-> 0]

\* The two writes of an iteration: what each did, the snapshot that
\* write_metrics_to_db bound to the INSERT, the number of snapshots taken,
\* and whether both writes of the iteration before failed.
NoMetrics == [timestamp |-> <<>>]
NoTick == [primary |-> "none", metrics |-> NoMetrics, archived |-> "none",
           samples |-> 0, failed_before |-> FALSE]

\* serving: the dashboard thread has been started; sampled, checked: the run
\* has taken a snapshot, has started a check.
NoRun == [serving |-> FALSE, sampled |-> FALSE, checked |-> FALSE]

NoResp == [kind |-> "none"]

BootPositions == {"pending", "backup", "promote", "chmod", "except", "initlog"}

LoopPositions ==
    {"loop", "commit", "archive", "timetest", "check", "compare", "download", "stream",
     "wrver", "dlexcept", "stats", "sleep"}

\* The state of the process variables when no process runs.
ProcessEnds ==
    /\ current_version' = DefaultVersion
    /\ latest' = None
    /\ last_update_check' = 0
    /\ promo' = NoPromo
    /\ chk' = NoChk
    /\ tick' = NoTick
    /\ run' = NoRun

\* An exception leaves the code that runs: raised in the loop it reaches
\* `except Exception` of main(), which prints it and lets main() return
\* ("crashed"); raised before the loop it ends the process with a traceback.
Stopped ==
    /\ pc' = IF pc \in LoopPositions THEN "crashed" ELSE "off"
    /\ ProcessEnds

StartTime == CheckInterval + 1

----------------------------------------------------------------------------
Init ==
    /\ system \in Systems
    /\ \E live \in {Absent, Exe(url_tag(InstalledVersion), TRUE)},
          ver \in {Absent, Text(InstalledVersion)} :
          fs = [p \in Paths |-> IF p = executable_name THEN live
                                ELSE IF p = version_txt THEN ver
                                ELSE Absent]
    /\ remote \in Tags \cup {NoRelease}
    /\ now = StartTime
    /\ pc = "off"
    /\ current_version = DefaultVersion
    /\ latest = None
    /\ last_update_check = 0
    /\ fs0 = fs
    /\ lastLive = fs[executable_name]
    /\ promo = NoPromo
    /\ chk = NoChk
    /\ writable = FALSE
    /\ db = {}
    /\ archive = <<>>
    /\ tick = NoTick
    /\ run = NoRun
    /\ resp = NoResp

----------------------------------------------------------------------------
(* GitUpdater.__init__ and check_pending_update *)

\* A main() that starts the dashboard thread before the updater is built.
dashboard_started_first(step) == TRUE

\* main() builds HardwareMonitor and GitUpdater ("init") and only then
\* starts the dashboard thread ("main").
dashboard_started(step) == step = "main"

\* The process is started: HardwareMonitor() (which creates the table when
\* it is missing), then GitUpdater.__init__ up to the call of
\* check_pending_update.  debug_print appends to the update log outside any
\* try; when that write fails the exception leaves main().
Boot ==
    /\ pc \in {"off", "crashed"}
    /\ \E logOk \in BOOLEAN :
        IF logOk
        THEN /\ pc' = "pending"
             /\ current_version' = get_local_version(fs)
             /\ run' = [run EXCEPT !.serving = dashboard_started("init")]
             /\ UNCHANGED <<latest, last_update_check, promo, chk, tick>>
        ELSE Stopped
    /\ UNCHANGED <<system, writable, db, archive, resp, fs, remote, now, fs0, lastLive>>

\* if os.path.exists(self.temp_update_file): ...
CheckPending ==
    /\ pc = "pending"
    /\ IF exists(fs, temp_update_file)
       THEN \E logOk \in BOOLEAN :
              IF logOk
              THEN /\ pc' = "backup"
                   /\ promo' = [status |-> "running",
                                staged0 |-> fs[temp_update_file],
                                live0 |-> fs[executable_name],
                                backup0 |-> fs[backup_name],
                                last0 |-> lastLive]
                   /\ UNCHANGED <<tick, run, current_version, latest, last_update_check,
                                  chk>>
              ELSE Stopped
       ELSE /\ pc' = "initlog"
            /\ UNCHANGED <<tick, run, current_version, latest, last_update_check,
                           promo, chk>>
    /\ UNCHANGED <<system, writable, db, archive, resp, fs, remote, now, fs0, lastLive>>

\* if os.path.exists(self.executable_name): shutil.move(executable, backup)
BackupMove ==
    /\ pc = "backup"
    /\ IF exists(fs, executable_name)
       THEN \E out \in {"ok", "move_fails", "log_fails"} :
              /\ fs' = IF out = "move_fails" THEN fs
                       ELSE move(fs, executable_name, backup_name)
              /\ pc' = IF out = "ok" THEN "promote" ELSE "except"
              /\ promo' = IF out = "ok" THEN promo
                          ELSE [promo EXCEPT !.status = IF out = "move_fails"
                                                        THEN "backup_failed"
                                                        ELSE "log_failed"]
       ELSE /\ pc' = "promote"
            /\ UNCHANGED <<fs, promo>>
    /\ UNCHANGED <<system, writable, db, archive, resp, tick, run, remote, now, current_version, latest,
                   last_update_check, fs0, lastLive, chk>>

\* shutil.move(self.temp_update_file, self.executable_name)
PromoteMove ==
    /\ pc = "promote"
    /\ \E ok \in BOOLEAN :
        IF ok
        THEN /\ fs' = move(fs, temp_update_file, executable_name)
             /\ lastLive' = fs[temp_update_file]
             /\ pc' = "chmod"
             /\ UNCHANGED promo
        ELSE /\ pc' = "except"
             /\ promo' = [promo EXCEPT !.status = "move_failed"]
             /\ UNCHANGED <<fs, lastLive>>
    /\ UNCHANGED <<system, writable, db, archive, resp, tick, run, remote, now, current_version, latest,
                   last_update_check, fs0, chk>>

\* if self.system in ["Linux", "Darwin"]: os.chmod(...); then the success log
Chmod ==
    /\ pc = "chmod"
    /\ \E out \in {"ok", "log_fails"} \cup
                  (IF system \in {"Linux", "Darwin"} THEN {"chmod_fails"} ELSE {}) :
        /\ pc' = IF out = "ok" THEN "initlog" ELSE "except"
        /\ promo' = [promo EXCEPT !.status =
                        CASE out = "ok" -> "done"
                          [] out = "chmod_fails" -> "chmod_failed"
                          [] OTHER -> "log_failed"]
    /\ UNCHANGED <<system, writable, db, archive, resp, tick, run, fs, remote, now, current_version, latest,
                   last_update_check, fs0, lastLive, chk>>

\* except Exception as e: self.debug_print(...)
PromoteExcept ==
    /\ pc = "except"
    /\ \E logOk \in BOOLEAN :
        IF logOk
        THEN /\ pc' = "initlog"
             /\ UNCHANGED <<tick, run, current_version, latest, last_update_check,
                            promo, chk>>
        ELSE Stopped
    /\ UNCHANGED <<system, writable, db, archive, resp, fs, remote, now, fs0, lastLive>>

\* The rest of __init__ (four debug_print calls), then main() up to the loop:
\* the dashboard thread is started and last_update_check = 0.
StartLoop ==
    /\ pc = "initlog"
    /\ \E logOk \in BOOLEAN :
        IF logOk
        THEN /\ pc' = "loop"
             /\ last_update_check' = 0
             /\ run' = [run EXCEPT !.serving = dashboard_started("main")]
             /\ UNCHANGED <<tick, current_version, latest, promo, chk>>
        ELSE Stopped
    /\ UNCHANGED <<system, writable, db, archive, resp, fs, remote, now, fs0, lastLive>>

----------------------------------------------------------------------------
(* The loop of main() *)

EndOfTime == StartTime + MaxElapsed

\* write_metrics_to_db: the snapshot is taken outside the try, so what
\* get_hardware_metrics raises leaves the loop; what the INSERT raises is
\* caught, sqlite3.IntegrityError silently and anything else with a print.
WriteDb ==
    /\ pc = "loop"
    /\ \E sampleOk \in BOOLEAN :
        IF sampleOk
        THEN \E t \in Instants, ok \in Readings :
              LET metrics == get_hardware_metrics(t, ok.temp, ok.disk)
                  row == row_of(metrics)
                  dup == unique_violation(db, row)
              IN \E out \in {"db_fails"} \cup
                      (IF writable /\ (dup \/ Cardinality(db) < MaxRows)
                       THEN {"insert"} ELSE {}) :
                  LET status == IF out = "db_fails" THEN "failed"
                                ELSE IF dup THEN "dup" ELSE "ok"
                  IN /\ db' = IF status = "ok" THEN db \cup {row} ELSE db
                     /\ tick' = [tick EXCEPT
                                   !.primary = status,
                                   !.metrics = IF status = "failed"
                                               THEN NoMetrics ELSE metrics,
                                   !.samples = 1]
                     /\ run' = [run EXCEPT !.sampled = TRUE]
                     /\ pc' = after_primary(status)
                     /\ UNCHANGED <<current_version, latest,
                                    last_update_check, promo, chk>>
        ELSE Stopped /\ UNCHANGED db
    /\ UNCHANGED <<system, fs, remote, now, fs0, lastLive, writable, archive,
                   resp>>

\* write_metrics_compressed: another call of get_hardware_metrics, outside
\* the try; the line is the JSON text of that snapshot, appended to the
\* gzip file inside try/except Exception.
WriteArchive ==
    /\ pc = "archive"
    /\ \E sampleOk \in BOOLEAN :
        IF sampleOk
        THEN \E t \in Instants, ok \in Readings :
              LET metrics == get_hardware_metrics(t, ok.temp, ok.disk)
              IN \E out \in {"gzip_fails"} \cup
                      (IF writable /\ Len(archive) < MaxArchive
                       THEN {"append"} ELSE {}) :
                  /\ archive' = IF out = "append"
                                THEN Append(archive, metrics) ELSE archive
                  /\ tick' = [tick EXCEPT
                                !.archived = IF out = "append"
                                             THEN "ok" ELSE "failed",
                                !.samples = @ + 1]
                  /\ pc' = "timetest"
                  /\ UNCHANGED <<current_version, latest, last_update_check,
                                 promo, chk, run>>
        ELSE Stopped /\ UNCHANGED archive
    /\ UNCHANGED <<system, fs, remote, now, fs0, lastLive, writable, db, resp>>

\* A test that lets a check start when exactly the interval has passed.
check_due_at_interval(t, last) == t - last >= CheckInterval

\* if current_time - last_update_check > CONFIG["check_updates_interval"]
check_due(t, last) == t - last > CheckInterval

\* current_time = time.time() and the comparison with last_update_check.
Tick ==
    /\ pc = "timetest"
    /\ promo' = NoPromo
    /\ tick' = [NoTick EXCEPT !.failed_before = tick.primary = "failed"
                                                /\ tick.archived = "failed"]
    /\ LET current_time == now IN
       IF check_due(current_time, last_update_check)
       THEN /\ pc' = "check"
            /\ chk' = [active |-> TRUE, current_time |-> current_time,
                       fs |-> fs, cv |-> current_version, outcome |-> "none",
                       downloads |-> 0, dl |-> "none",
                       prev_start |-> chk.current_time]
            /\ run' = [run EXCEPT !.checked = TRUE]
       ELSE /\ pc' = "sleep"
            /\ UNCHANGED <<chk, run>>
    /\ UNCHANGED <<system, writable, db, archive, resp, fs, remote, now, current_version, latest,
                   last_update_check, fs0, lastLive>>

\* What the release index can answer.
QueryOutcomes ==
    {"network", "http_error"} \cup
        (IF remote = NoRelease THEN {"notfound"} ELSE {"ok", "parse"})

\* The value get_latest_release returns for an outcome of the query.
get_latest_release(outcome, tag) ==
    IF outcome = "ok" THEN lstrip_v(tag) ELSE None

\* check_for_updates up to `latest = self.get_latest_release()`.
GetLatestRelease ==
    /\ pc = "check"
    /\ \E logOk \in BOOLEAN :
        IF logOk
        THEN \E outcome \in QueryOutcomes :
                /\ latest' = get_latest_release(outcome, remote)
                /\ chk' = [chk EXCEPT !.outcome = outcome]
                /\ pc' = "compare"
                /\ UNCHANGED <<tick, run, current_version, last_update_check,
                               promo>>
        ELSE Stopped
    /\ UNCHANGED <<system, writable, db, archive, resp, fs, remote, now, fs0, lastLive>>

\* A comparison that never asks for an update.
update_needed_never(l, cv) == FALSE

\* A comparison that asks for an update whatever the versions are.
update_needed_always(l, cv) == TRUE

\* `if latest != self.current_version`
update_needed(l, cv) == l # cv

\* The rest of check_for_updates up to the call of download_update.
Compare ==
    /\ pc = "compare"
    /\ \E logOk \in BOOLEAN :
        IF logOk
        THEN /\ IF latest = None THEN pc' = "stats" /\ UNCHANGED chk
                ELSE IF update_needed(latest, current_version)
                THEN /\ pc' = "download"
                     /\ chk' = [chk EXCEPT !.downloads = @ + 1]
                ELSE pc' = "stats" /\ UNCHANGED chk
             /\ UNCHANGED <<tick, run, current_version, latest, last_update_check,
                            promo>>
        ELSE Stopped
    /\ UNCHANGED <<system, writable, db, archive, resp, fs, remote, now, fs0, lastLive>>

\* download_update: requests.get(url, stream=True) and, on status 200,
\* open(self.temp_update_file, "wb"), which truncates the file.
DownloadRequest ==
    /\ pc = "download"
    /\ \E out \in {"http_error", "exception"} \cup
                  (IF url_tag(latest) \in Tags THEN {"http_200"} ELSE {}) :
        /\ fs' = IF out = "http_200"
                 THEN write_file(fs, download_target, Exe(url_tag(latest), FALSE))
                 ELSE fs
        /\ pc' = CASE out = "http_200" -> "stream"
                   [] out = "http_error" -> "stats"
                   [] OTHER -> "dlexcept"
        /\ chk' = [chk EXCEPT !.dl = IF out = "http_200" THEN @ ELSE out]
    /\ UNCHANGED <<system, writable, db, archive, resp, tick, run, remote, now, current_version, latest,
                   last_update_check, fs0, lastLive, promo>>

\* for chunk in response.iter_content(...): f.write(chunk); then two
\* debug_print calls.
DownloadStream ==
    /\ pc = "stream"
    /\ \E out \in {"ok", "io_error", "log_fails"}, d \in {0, 1} :
        /\ now + d <= EndOfTime
        /\ now' = now + d
        /\ fs' = IF out = "io_error" THEN fs
                 ELSE write_file(fs, download_target, Exe(url_tag(latest), TRUE))
        /\ pc' = IF out = "ok" THEN "wrver" ELSE "dlexcept"
        /\ chk' = [chk EXCEPT !.dl = IF out = "ok" THEN @ ELSE out]
    /\ UNCHANGED <<system, writable, db, archive, resp, tick, run, remote, current_version, latest,
                   last_update_check, fs0, lastLive, promo>>

\* with open("version.txt", "w") as f: f.write(version); then
\* self.current_version = version.  open(..., "w") truncates, so a failed
\* write leaves the file empty.
WriteVersion ==
    /\ pc = "wrver"
    /\ \E out \in {"ok", "open_fails", "write_fails"} :
        /\ fs' = CASE out = "ok" -> write_file(fs, version_txt, version_marker(latest))
                   [] out = "write_fails" -> write_file(fs, version_txt, Text(<<>>))
                   [] OTHER -> fs
        /\ current_version' = IF out = "ok" THEN latest ELSE current_version
        /\ pc' = IF out = "ok" THEN "stats" ELSE "dlexcept"
        /\ chk' = [chk EXCEPT !.dl = out]
    /\ UNCHANGED <<system, writable, db, archive, resp, tick, run, remote, now, latest, last_update_check,
                   fs0, lastLive, promo>>

\* except Exception as e: self.debug_print(...)
DownloadExcept ==
    /\ pc = "dlexcept"
    /\ \E logOk \in BOOLEAN :
        IF logOk
        THEN /\ pc' = "stats"
             /\ UNCHANGED <<tick, run, current_version, latest, last_update_check,
                            promo, chk>>
        ELSE Stopped
    /\ UNCHANGED <<system, writable, db, archive, resp, fs, remote, now, fs0, lastLive>>

\* A loop that forgets to record the time of the check.
after_check_forgets(t, last) == last

\* last_update_check = current_time
after_check(t, last) == t

\* get_db_size_stats() and last_update_check = current_time.  An exception
\* of get_db_size_stats reaches the handler of main(), which ends the loop.
Stats ==
    /\ pc = "stats"
    /\ \E ok \in BOOLEAN :
        IF ok
        THEN /\ pc' = "sleep"
             /\ last_update_check' = after_check(chk.current_time, last_update_check)
             /\ latest' = None
             /\ chk' = [NoChk EXCEPT !.current_time = chk.current_time,
                                     !.outcome = IF chk.outcome = "ok"
                                                 THEN "ok" ELSE "failed"]
             /\ UNCHANGED <<tick, run, current_version, promo>>
        ELSE Stopped
    /\ UNCHANGED <<system, writable, db, archive, resp, fs, remote, now, fs0, lastLive>>

\* time.sleep(CONFIG["metrics_interval"])
Sleep ==
    /\ pc = "sleep"
    /\ \E d \in {0, 1} :
        /\ now + d <= EndOfTime
        /\ now' = now + d
    /\ pc' = "loop"
    /\ UNCHANGED <<system, writable, db, archive, resp, tick, run, fs, remote, current_version, latest,
                   last_update_check, fs0, lastLive, promo, chk>>

----------------------------------------------------------------------------
(* The environment *)

\* The process is killed (or the host loses power) at any point.
Kill ==
    /\ pc \notin {"off", "crashed"}
    /\ pc' = "off"
    /\ ProcessEnds
    /\ UNCHANGED <<system, writable, db, archive, resp, fs, remote, now, fs0, lastLive>>

\* The repository publishes another latest release, or withdraws it.
Publish ==
    /\ \E t \in (Tags \cup {NoRelease}) \ {remote} : remote' = t
    /\ UNCHANGED <<system, writable, db, archive, resp, tick, run, fs, now, pc, current_version, latest,
                   last_update_check, fs0, lastLive, promo, chk>>

----------------------------------------------------------------------------
Next ==
    \/ Boot
    \/ CheckPending
    \/ BackupMove
    \/ PromoteMove
    \/ Chmod
    \/ PromoteExcept
    \/ StartLoop
    \/ WriteDb
    \/ WriteArchive
    \/ Tick
    \/ GetLatestRelease
    \/ Compare
    \/ DownloadRequest
    \/ DownloadStream
    \/ WriteVersion
    \/ DownloadExcept
    \/ Stats
    \/ Sleep
    \/ Kill
    \/ Publish

Spec == Init /\ [][Next]_vars

----------------------------------------------------------------------------
(* The process under fair scheduling, for a release that stays published:  *)
(* the host is restarted again and again, and no step fails forever.       *)

\* Version 1 is installed on a Linux host and a release is published.
InitLive ==
    /\ system = "Linux"
    /\ fs = [p \in Paths |->
                IF p = executable_name THEN Exe(url_tag(InstalledVersion), TRUE)
                ELSE IF p = version_txt THEN Text(InstalledVersion)
                ELSE Absent]
    /\ remote \in Tags
    /\ now = StartTime
    /\ pc = "off"
    /\ current_version = DefaultVersion
    /\ latest = None
    /\ last_update_check = 0
    /\ fs0 = fs
    /\ lastLive = fs[executable_name]
    /\ promo = NoPromo
    /\ chk = NoChk
    /\ writable = FALSE
    /\ db = {}
    /\ archive = <<>>
    /\ tick = NoTick
    /\ run = NoRun
    /\ resp = NoResp

NextLive ==
    \/ Boot
    \/ CheckPending
    \/ BackupMove
    \/ PromoteMove
    \/ Chmod
    \/ PromoteExcept
    \/ StartLoop
    \/ WriteDb
    \/ WriteArchive
    \/ Tick
    \/ GetLatestRelease
    \/ Compare
    \/ DownloadRequest
    \/ DownloadStream
    \/ WriteVersion
    \/ DownloadExcept
    \/ Stats
    \/ Sleep
    \/ Kill

\* A step that ends the process other than a restart of the host while the
\* loop sleeps: an exception that leaves main(), or a kill elsewhere.
FaultStop == pc # "sleep" /\ pc' \in {"off", "crashed"}

\* No position is left waiting forever and the host is restarted again and
\* again; from some point on the process is ended by restarts during its
\* sleep only; and the release query, the three steps of the download and
\* the two moves of the promotion do not fail forever.
Fairness ==
    /\ \A p \in LoopPositions \cup BootPositions \cup {"off", "crashed"} :
          WF_vars(NextLive /\ pc = p /\ pc' # p)
    /\ []<><<Kill>>_vars
    /\ <>[][~FaultStop]_vars
    /\ SF_vars(GetLatestRelease /\ chk'.outcome = "ok")
    /\ SF_vars(DownloadRequest /\ pc' = "stream")
    /\ SF_vars(DownloadStream /\ pc' = "wrver")
    /\ SF_vars(WriteVersion /\ pc' = "stats")
    /\ SF_vars(BackupMove /\ pc' = "promote")
    /\ SF_vars(PromoteMove /\ pc' = "chmod")

SpecLive == InitLive /\ [][NextLive]_vars /\ Fairness

----------------------------------------------------------------------------
(* The sampling loop between two update checks, on a host that lets the    *)
(* metrics files be written.                                               *)

\* A run in its loop, just after a check.
RunningAfterCheck ==
    /\ system = "Linux"
    /\ fs = [p \in Paths |->
                IF p = executable_name THEN Exe(url_tag(InstalledVersion), TRUE)
                ELSE IF p = version_txt THEN Text(InstalledVersion)
                ELSE Absent]
    /\ remote = NoRelease
    /\ now = EndOfTime
    /\ pc = "sleep"
    /\ current_version = InstalledVersion
    /\ latest = None
    /\ last_update_check = EndOfTime
    /\ fs0 = fs
    /\ lastLive = fs[executable_name]
    /\ promo = NoPromo
    /\ chk = [NoChk EXCEPT !.current_time = EndOfTime, !.outcome = "failed"]
    /\ writable = TRUE
    /\ tick = NoTick
    /\ run = [serving |-> TRUE, sampled |-> TRUE, checked |-> TRUE]
    /\ resp = NoResp

\* The table is still empty.
InitStore == RunningAfterCheck /\ db = {} /\ archive = <<>>

NextStore ==
    \/ WriteDb
    \/ WriteArchive
    \/ Tick
    \/ Sleep

SpecStore == InitStore /\ [][NextStore]_vars

----------------------------------------------------------------------------
(* The dashboard: /api/latest of main.py and of webService.py, /api/stats *)

RecentLimit == 2    \* the number of rows /api/latest asks for

TheValue(x) == CHOOSE v \in x : TRUE

\* COALESCE(x, d)
COALESCE(x, d) == IF x = NULL THEN Value(d) ELSE x

\* ORDER BY timestamp DESC
RECURSIVE order_by_timestamp_desc(_)
order_by_timestamp_desc(rows) ==
    IF rows = {} THEN <<>>
    ELSE LET m == CHOOSE r \in rows :
                    \A o \in rows : ~TextLess(r.timestamp, o.timestamp)
         IN <<m>> \o order_by_timestamp_desc(rows \ {m})

\* LIMIT k
limit(seq, k) == SubSeq(seq, 1, IF Len(seq) < k THEN Len(seq) ELSE k)

\* A handler that returns the rows in the order of the cursor.
not_reversed(seq) == seq

\* reversed(rows)
reversed(seq) == [i \in 1..Len(seq) |-> seq[Len(seq) + 1 - i]]

\* api_latest of main.py
api_latest(rows) ==
    reversed(limit(order_by_timestamp_desc(rows), RecentLimit))

\* api_latest of webService.py: the temperature goes through COALESCE(.., 0).
api_latest_ws(rows) ==
    LET found == limit(order_by_timestamp_desc(rows), RecentLimit)
        selected == [i \in 1..Len(found) |->
                        [found[i] EXCEPT !.temp_cpu = COALESCE(@, 0)]]
    IN IF selected = <<>> THEN <<>> ELSE reversed(selected)

\* COUNT(column): the rows whose column is not NULL.
RECURSIVE count_of(_, _)
count_of(seq, c) ==
    IF seq = <<>> THEN 0
    ELSE (IF Head(seq)[c] = NULL THEN 0 ELSE 1) + count_of(Tail(seq), c)

\* SUM(column)
RECURSIVE sum_of(_, _)
sum_of(seq, c) ==
    IF seq = <<>> THEN 0
    ELSE (IF Head(seq)[c] = NULL THEN 0 ELSE TheValue(Head(seq)[c]))
            + sum_of(Tail(seq), c)

\* An average that counts a NULL as a zero.
AVG_nulls_as_zero(seq, c) ==
    IF seq = <<>> THEN NULL
    ELSE Value([num |-> sum_of(seq, c), den |-> Len(seq)])

\* AVG(column): the quotient num / den, NULL when no row has a value.
AVG(seq, c) ==
    IF count_of(seq, c) = 0 THEN NULL
    ELSE Value([num |-> sum_of(seq, c), den |-> count_of(seq, c)])

\* MAX(column)
MAX(seq, c) ==
    LET vals == {TheValue(seq[i][c]) : i \in {j \in 1..Len(seq) : seq[j][c] # NULL}}
    IN IF vals = {} THEN NULL
       ELSE Value(CHOOSE m \in vals : \A v \in vals : v <= m)

\* MIN(timestamp)
MIN_timestamp(rows) ==
    IF rows = {} THEN NULL
    ELSE Value(CHOOSE t \in {r.timestamp : r \in rows} :
                   \A r \in rows : ~TextLess(r.timestamp, t))

\* api_stats, of both files
api_stats(rows) ==
    LET seq == order_by_timestamp_desc(rows)
    IN [total_registros |-> Cardinality(rows),
        cpu_promedio |-> AVG(seq, "cpu_percent"),
        cpu_maximo |-> MAX(seq, "cpu_percent"),
        disk_promedio |-> AVG(seq, "disk_percent"),
        disk_maximo |-> MAX(seq, "disk_percent"),
        temp_cpu_avg |-> AVG(seq, "temp_cpu"),
        temp_cpu_max |-> MAX(seq, "temp_cpu"),
        desde |-> MIN_timestamp(rows)]

\* An api_temperatures that answers an empty table with empty readings.
api_temperatures_of_nothing(rows) ==
    [status |-> 200, body |-> [timestamp |-> NULL, cpu |-> NULL]]

\* api_temperatures, of both files: the last row, or 404 "No hay datos".
api_temperatures(rows) ==
    LET found == limit(order_by_timestamp_desc(rows), 1)
    IN IF found = <<>>
       THEN [status |-> 404, body |-> [error |-> "No hay datos"]]
       ELSE [status |-> 200,
             body |-> [timestamp |-> Value(found[1].timestamp),
                       cpu |-> found[1].temp_cpu]]

\* The sizes, in bytes, stat() reports for the database file.
DbSizes == {300, 8192}

\* A rounding that cuts the digits off.
round_down(n, d) == n \div d

\* round(n / d): to the nearest integer, a tie to the even one.
round(n, d) ==
    LET q == n \div d
        r == n % d
    IN IF 2 * r < d THEN q
       ELSE IF 2 * r > d THEN q + 1
       ELSE IF q % 2 = 0 THEN q ELSE q + 1

\* api_db_size for a file of st_size bytes.  size_mb * 1024 * 1024 is
\* st_size again (both operations are exact on floats), so bytes_per_row is
\* round(st_size / rows, 1), here in tenths; size_mb is in hundredths.
api_db_size(rows, st_size) ==
    LET registros == Cardinality(rows)
    IN [size_mb |-> [hundredths |-> round(100 * st_size, 1024 * 1024)],
        registros |-> registros,
        bytes_per_row |-> [tenths |-> IF registros > 0
                                      THEN round(10 * st_size, registros)
                                      ELSE 0]]

Ok(body) == [status |-> 200, body |-> body]

\* A request is answered with the result of the handler, or with status 500
\* when the database cannot be read.
Answer(kind, result) ==
    /\ run.serving
    /\ \E ok \in BOOLEAN :
         resp' = IF ok THEN [kind |-> kind, status |-> result.status,
                             body |-> result.body]
                 ELSE [kind |-> "error", status |-> 500, body |-> <<>>]
    /\ UNCHANGED <<system, fs, remote, now, pc, current_version, latest,
                   last_update_check, fs0, lastLive, promo, chk, writable,
                   db, archive, tick, run>>

ApiLatest == Answer("latest", Ok(api_latest(db)))

ApiLatestWs == Answer("latest_ws", Ok(api_latest_ws(db)))

ApiStats == Answer("stats", Ok(api_stats(db)))

ApiTemperatures == Answer("temperatures", api_temperatures(db))

\* api_db_size: 404 "BD no encontrada" when the file is not there, which can
\* only be when no row is; st_size is kept with the answer as history.
ApiDbSize ==
    /\ run.serving
    /\ \E out \in {"ok", "unreadable"} \cup
                  (IF db = {} THEN {"missing"} ELSE {}),
          st_size \in DbSizes :
         resp' = CASE out = "ok" ->
                        [kind |-> "db_size", status |-> 200,
                         body |-> api_db_size(db, st_size),
                         st_size |-> st_size]
                   [] out = "missing" ->
                        [kind |-> "error", status |-> 404, body |-> <<>>]
                   [] OTHER ->
                        [kind |-> "error", status |-> 500, body |-> <<>>]
    /\ UNCHANGED <<system, fs, remote, now, pc, current_version, latest,
                   last_update_check, fs0, lastLive, promo, chk, writable,
                   db, archive, tick, run>>

\* The rows write_metrics_to_db can store.
Rows == {row_of(get_hardware_metrics(t, ok.temp, ok.disk)) :
            t \in Instants, ok \in Readings}

\* The tables write_metrics_to_db can have built.
Tables ==
    {rows \in SUBSET Rows :
        /\ Cardinality(rows) <= MaxRows
        /\ \A r1, r2 \in rows : r1.timestamp = r2.timestamp => r1 = r2}

InitQuery == RunningAfterCheck /\ db \in Tables /\ archive = <<>>

NextQuery ==
    \/ ApiLatest
    \/ ApiLatestWs
    \/ ApiStats
    \/ ApiTemperatures
    \/ ApiDbSize

SpecQuery == InitQuery /\ [][NextQuery]_vars

----------------------------------------------------------------------------
(* The sampling loop and a request of the dashboard on one database file:  *)
(* write_metrics_to_db in the two steps other connections can tell apart   *)
(* (the INSERT, then the commit), and a request in two (the SELECT takes   *)
(* the shared lock, fetchall and close give it back).  The file is in      *)
(* SQLite's default rollback-journal mode.                                 *)

\* The row inserted and not yet committed.
PendingRows ==
    IF tick.primary = "pending" THEN {row_of(tick.metrics)} ELSE {}

\* A database whose readers see the columns of a row as they are written.
visible_torn(rows, pending) ==
    rows \cup {[r EXCEPT !.cpu_percent = NULL] : r \in pending}

\* What another connection sees: the committed rows.
visible(rows, pending) == rows

\* write_metrics_to_db up to the INSERT: the snapshot, sqlite3.connect and
\* cursor.execute, which raises IntegrityError for a stored timestamp.
InsertRow ==
    /\ pc = "loop"
    /\ \E sampleOk \in BOOLEAN :
        IF sampleOk
        THEN \E t \in Instants, ok \in Readings :
              LET metrics == get_hardware_metrics(t, ok.temp, ok.disk)
                  row == row_of(metrics)
                  dup == unique_violation(db, row)
              IN \E out \in {"db_fails"} \cup
                      (IF writable /\ (dup \/ Cardinality(db) < MaxRows)
                       THEN {"insert"} ELSE {}) :
                  LET status == IF out = "db_fails" THEN "failed"
                                ELSE IF dup THEN "dup" ELSE "pending"
                  IN /\ tick' = [tick EXCEPT
                                   !.primary = status,
                                   !.metrics = IF status = "failed"
                                               THEN NoMetrics ELSE metrics,
                                   !.samples = 1]
                     /\ run' = [run EXCEPT !.sampled = TRUE]
                     /\ pc' = IF status = "pending" THEN "commit"
                              ELSE after_primary(status)
                     /\ UNCHANGED <<current_version, latest,
                                    last_update_check, promo, chk>>
        ELSE Stopped
    /\ UNCHANGED <<system, fs, remote, now, fs0, lastLive, writable, db,
                   archive, resp>>

\* conn.commit(): it needs the exclusive lock, which it gets once no request
\* holds the shared lock; after the busy timeout it raises "database is
\* locked", which `except Exception` catches like any other failure.
CommitRow ==
    /\ pc = "commit"
    /\ \E out \in {"commit_fails"} \cup
                  (IF resp.kind # "reading" THEN {"commit"} ELSE {}) :
        LET status == IF out = "commit" THEN "ok" ELSE "failed"
        IN /\ db' = IF status = "ok" THEN db \cup PendingRows ELSE db
           /\ tick' = [tick EXCEPT !.primary = status,
                                   !.metrics = IF status = "failed"
                                               THEN NoMetrics ELSE @]
           /\ pc' = after_primary(status)
    /\ UNCHANGED <<system, fs, remote, now, current_version, latest,
                   last_update_check, fs0, lastLive, promo, chk, writable,
                   archive, run, resp>>

\* api_latest up to cursor.execute: the connection holds the shared lock.
ReadBegin ==
    /\ run.serving
    /\ resp.kind # "reading"
    /\ resp' = [kind |-> "reading", status |-> 0, body |-> <<>>]
    /\ UNCHANGED <<system, fs, remote, now, pc, current_version, latest,
                   last_update_check, fs0, lastLive, promo, chk, writable,
                   db, archive, tick, run>>

\* fetchall, conn.close and the answer.
ReadEnd ==
    /\ resp.kind = "reading"
    /\ Answer("latest", Ok(api_latest(visible(db, PendingRows))))

\* The compressed log has no room left.
InitConcurrent ==
    /\ RunningAfterCheck
    /\ db = {}
    /\ archive = [i \in 1..MaxArchive |->
                    get_hardware_metrics(<<1, 0>>, TRUE, TRUE)]

NextConcurrent ==
    \/ InsertRow
    \/ CommitRow
    \/ WriteArchive
    \/ Tick
    \/ Sleep
    \/ ReadBegin
    \/ ReadEnd

SpecConcurrent == InitConcurrent /\ [][NextConcurrent]_vars

----------------------------------------------------------------------------
(* Properties of boot-time promotion *)

\* C1: given an executable at the live path initially, an executable is at
\* the live path in every reachable state, whatever step of the download or
\* of the promotion is interrupted or fails.
C1_LiveExecutableAlwaysExists ==
    exists(fs0, executable_name) => exists(fs, executable_name)

Complete(c) == c = Absent \/ (c.kind = "exe" /\ c.complete)

\* C2: a staged artifact on disk is a completely downloaded artifact: once
\* the stream has ended, well or badly, the staged slot holds no partial
\* file, and the live executable is never a partial file.
C2_StagedArtifactIsComplete ==
    /\ pc # "stream" => Complete(fs[temp_update_file])
    /\ Complete(fs[executable_name])

\* C3: a promotion that runs to its end, entered with or without a live
\* executable and with or without a prior backup, ends with the formerly
\* staged content at the live path, no staged artifact, and the content that
\* was last live in the backup slot.
C3_PromotionReentrant ==
    promo.status = "done" =>
        /\ fs[executable_name] = promo.staged0
        /\ ~exists(fs, temp_update_file)
        /\ fs[backup_name] = promo.last0

\* A promotion completed after an earlier one was interrupted between the
\* backup move and the staged-artifact move, over an older backup.
C3_Witness ==
    /\ promo.status = "done"
    /\ promo.live0 = Absent
    /\ promo.backup0 # Absent
    /\ promo.staged0 # promo.backup0

\* C4: when a step of the promotion fails (backup move, staged-to-live move,
\* restoring the execute permission), the process reaches its main loop with
\* the staged artifact still present, so that the next boot retries.
C4_FailedPromotionKeepsStaged ==
    pc = "loop" /\ promo.status \in {"backup_failed", "move_failed", "chmod_failed"}
        => exists(fs, temp_update_file)

----------------------------------------------------------------------------
(* Properties of the periodic check and the download *)

InCheck(positions) == chk.active /\ pc \in positions

\* C5: a check that finds a remote version different from the local one
\* starts exactly one download, and when the download succeeds the version
\* marker, on disk and in memory, is the remote version and the staged
\* artifact of that version exists.
C5_MismatchDownloadsOnce ==
    /\ chk.downloads <= 1
    /\ InCheck({"download", "stream", "wrver", "dlexcept", "stats"})
         /\ latest # None /\ latest # chk.cv
         => chk.downloads = 1
    /\ InCheck({"stats"}) /\ chk.dl = "ok" =>
         /\ latest # chk.cv
         /\ fs[version_txt] = Text(latest)
         /\ current_version = latest
         /\ fs[temp_update_file] = Exe(url_tag(latest), TRUE)

\* A check ends after a successful download.
C5_Witness ==
    InCheck({"stats"}) /\ chk.dl = "ok" /\ chk.cv = InstalledVersion

\* C6: when the remote version equals the local one the check downloads
\* nothing and leaves the version marker, the staged artifact, the live
\* executable and the backup as they were.
C6_EqualVersionsNoOp ==
    InCheck({"stats"}) /\ latest = chk.cv =>
        /\ chk.downloads = 0
        /\ fs = chk.fs
        /\ current_version = chk.cv

\* A check ends having found the remote version equal to the local one.
C6_Witness ==
    InCheck({"stats"}) /\ latest = chk.cv /\ chk.outcome = "ok"

\* C7: a failed download (HTTP status other than 200, or any I/O error)
\* leaves the version marker unchanged on disk and in memory.
C7_FailedDownloadKeepsMarker ==
    InCheck({"stats"}) /\ chk.dl \notin {"none", "ok"} =>
        /\ fs[version_txt] = chk.fs[version_txt]
        /\ current_version = chk.cv

\* C8: the live executable and the backup change only in the two moves of
\* the boot-time promotion; no step of the main loop, of the check or of the
\* download changes either.
C8_LoopLeavesLiveAndBackup ==
    [][ /\ pc \in LoopPositions =>
            /\ fs'[executable_name] = fs[executable_name]
            /\ fs'[backup_name] = fs[backup_name]
        /\ fs'[executable_name] # fs[executable_name]
              \/ fs'[backup_name] # fs[backup_name]
            => pc \in {"backup", "promote"} ]_vars

\* A download has replaced the staged artifact while an executable is live.
C8_Witness ==
    /\ InCheck({"wrver"})
    /\ exists(fs, executable_name)
    /\ fs[temp_update_file] # chk.fs[temp_update_file]

\* C9: a check whose release query fails or finds no release starts no
\* download and leaves marker and staged artifact unchanged; the next check
\* of the run starts only once more than the check interval has passed since
\* the failed one started (no retry burst), and does start at the first
\* iteration after that (no backoff).
C9_FailedQueryWaitsForInterval ==
    [][ /\ InCheck({"stats"}) /\ chk.outcome # "ok" =>
            /\ chk.downloads = 0
            /\ fs = chk.fs
            /\ current_version = chk.cv
        /\ ~chk.active /\ chk.outcome = "failed" /\ chk'.active
            => now - chk.current_time > CheckInterval
        /\ pc = "timetest" /\ pc' \notin {"timetest", "off"} /\ chk.outcome = "failed"
              /\ now - chk.current_time > CheckInterval
            => chk'.active ]_vars

\* A run is at the interval test after a failed check, the interval over.
C9_Witness ==
    /\ pc = "timetest"
    /\ chk.outcome = "failed"
    /\ now - chk.current_time > CheckInterval

\* C10: the controller can tell "no such release" from a network failure:
\* after a network failure it holds a result other than the one it holds
\* when the index has no release.
C10_NotFoundDiffersFromNetworkError ==
    pc = "compare" /\ chk.outcome = "network"
        => latest # get_latest_release("notfound", remote)

----------------------------------------------------------------------------
(* Properties of the two writes of an iteration *)

\* C11: appending a snapshot whose timestamp the table already holds leaves
\* the table as it was and raises nothing to the caller, which goes on to
\* the compressed log; the table never holds two rows with one timestamp.
C11_DuplicateAppendIgnored ==
    [][ /\ \A r1, r2 \in db' : r1.timestamp = r2.timestamp => r1 = r2
        /\ pc = "loop" /\ tick'.primary = "dup"
            => db' = db /\ pc' = "archive" ]_vars

\* A snapshot was refused whose readings differ from those of the stored row
\* with its timestamp.
C11_Witness ==
    /\ tick.primary = "dup"
    /\ \E r \in db : /\ r.timestamp = tick.metrics.timestamp
                     /\ r # row_of(tick.metrics)

\* C12: the two writes of an iteration are isolated from one another: the
\* write to the compressed log, failing or not, leaves the table and the row
\* just stored as they are, and a failed write to the table is followed by
\* the attempt to write the compressed log.
C12_WritePathsIsolated ==
    [][ /\ pc = "archive" =>
            /\ db' = db
            /\ tick.primary = "ok" => row_of(tick.metrics) \in db'
        /\ pc = "loop" /\ tick'.primary = "failed" => pc' = "archive"
        /\ pc' = "timetest" => tick'.archived # "none" ]_vars

\* The table refused the row and the compressed log took its line.
C12_Witness ==
    pc = "timetest" /\ tick.primary = "failed" /\ tick.archived = "ok"

\* C13: an iteration takes one snapshot, and when both writes succeed the
\* line appended to the compressed log is the snapshot stored in the table.
C13_ArchiveRecordsSameSnapshot ==
    pc = "timetest" /\ tick.primary = "ok" /\ tick.archived = "ok" =>
        /\ tick.samples = 1
        /\ archive[Len(archive)] = tick.metrics

\* C14: a failure of the write to the table, of the write to the compressed
\* log, or of both, does not end the loop: the iteration goes on to the
\* interval test and from there to the sleep or to the check, and after the
\* sleep the loop samples again.
C14_StorageFaultKeepsLoop ==
    [][ /\ pc = "loop" /\ tick'.primary = "failed" => pc' = "archive"
        /\ pc = "archive" /\ tick'.archived = "failed" => pc' = "timetest"
        /\ pc = "timetest" => pc' \in {"timetest", "check", "sleep", "off"}
        /\ pc = "sleep" => pc' \in {"sleep", "loop", "off"} ]_vars

\* Both writes have failed in two iterations in a row.
C14_Witness ==
    /\ pc = "timetest"
    /\ tick.failed_before
    /\ tick.primary = "failed"
    /\ tick.archived = "failed"

\* C15: no fault of the sampling or of the update path (release query,
\* download, update log, version marker, snapshot, size statistics) ends the
\* loop of main().
C15_NoFaultEndsLoop == pc # "crashed"

\* C18 (storing): a reading that was not available is stored as NULL, not
\* as zero.
C18_UnavailableReadingStoredAbsent ==
    tick.primary = "ok" /\ tick.metrics.disk = {} =>
        \A r \in db : r.timestamp = tick.metrics.timestamp
                        => r.disk_percent = NULL

----------------------------------------------------------------------------
(* Properties of the order of start-up and of the schedule of checks *)

\* C19: two consecutive checks of a run start more than the check interval
\* apart, measured between the instants at which they start, whatever the
\* earlier check did.
C19_ChecksMoreThanIntervalApart ==
    chk.active /\ chk.prev_start > 0 =>
        chk.current_time - chk.prev_start > CheckInterval

\* A second check of a run has started as early as the test allows.
C19_Witness ==
    /\ chk.active
    /\ chk.prev_start > 0
    /\ chk.current_time - chk.prev_start = CheckInterval + 1

\* C20: while the boot-time promotion runs, and until the start-up code is
\* through, the run has taken no snapshot, started no check and not started
\* the dashboard thread; once one of these has happened no promotion runs.
C20_PromotionBeforeLoops ==
    /\ pc \in BootPositions \/ promo.status = "running" =>
          run = NoRun /\ ~chk.active /\ tick = NoTick
    /\ run.serving \/ run.sampled \/ run.checked =>
          pc \in LoopPositions /\ promo.status # "running"

\* The first snapshot of a run is taken after a promotion that completed.
C20_Witness ==
    pc = "archive" /\ promo.status = "done" /\ run.serving /\ ~run.checked

----------------------------------------------------------------------------
(* Properties of the queries of the dashboard *)

\* The instant a timestamp was formatted from.
instant_of(text) == CHOOSE t \in Instants : isoformat(t) = text

\* C16: /api/latest returns min(RecentLimit, number of rows) rows, each a
\* row of the table, in ascending order of time, and every row it leaves out
\* is earlier than every row it returns.
C16_LatestReturnsNewestAscending ==
    resp.kind = "latest" =>
        LET body == resp.body
            at(i) == instant_of(body[i].timestamp)
        IN /\ Len(body) = IF Cardinality(db) < RecentLimit
                          THEN Cardinality(db) ELSE RecentLimit
           /\ \A i \in 1..Len(body) : body[i] \in db
           /\ \A i, j \in 1..Len(body) : i < j => Earlier(at(i), at(j))
           /\ \A r \in db : (\A i \in 1..Len(body) : body[i] # r) =>
                \A i \in 1..Len(body) : Earlier(instant_of(r.timestamp), at(i))

\* The table holds more rows than /api/latest returns.
C16_Witness ==
    resp.kind = "latest" /\ Cardinality(db) > RecentLimit

\* The rows that have a value in column c, and the number of them with value v.
Having(c) == {r \in db : r[c] # NULL}
Count(c, v) == Cardinality({r \in Having(c) : TheValue(r[c]) = v})

\* Average a and maximum m are those of the rows that have a value in c.
Aggregates(c, a, m) ==
    IF Having(c) = {} THEN a = NULL /\ m = NULL
    ELSE /\ TheValue(a).den = Cardinality(Having(c))
         /\ TheValue(a).num =
                10 * Count(c, 10) + 20 * Count(c, 20) + 30 * Count(c, 30)
                    + 40 * Count(c, 40) + 50 * Count(c, 50)
         /\ \E r \in Having(c) : TheValue(r[c]) = TheValue(m)
         /\ \A r \in Having(c) : TheValue(r[c]) <= TheValue(m)

C21_EmptyTableAnswers ==
    /\ db = {} /\ resp.kind \in {"latest", "latest_ws"} =>
          resp.status = 200 /\ resp.body = <<>>
    /\ db = {} /\ resp.kind = "stats" =>
          /\ resp.status = 200
          /\ resp.body.total_registros = 0
          /\ resp.body.desde = NULL
          /\ \A f \in {"cpu_promedio", "cpu_maximo", "disk_promedio",
                       "disk_maximo", "temp_cpu_avg", "temp_cpu_max"} :
                 resp.body[f] = NULL
    /\ db = {} /\ resp.kind = "db_size" =>
          /\ resp.status = 200
          /\ resp.body.registros = 0
          /\ resp.body.bytes_per_row.tenths = 0
    /\ resp.kind = "temperatures" => (resp.status = 404 <=> db = {})
    /\ resp.kind = "temperatures" => resp.status \in {200, 404}

\* /api/temperatures has been asked over a table without rows.
C21_Witness ==
    db = {} /\ resp.kind = "temperatures" /\ resp.status = 404

\* C23 as stated: bytes_per_row is the size of the file divided by the
\* number of rows, and 0 when there is no row.
C23_BytesPerRowIsQuotient ==
    resp.kind = "db_size" =>
        IF resp.body.registros > 0
        THEN resp.body.bytes_per_row.tenths * resp.body.registros
                = 10 * resp.st_size
        ELSE resp.body.bytes_per_row.tenths = 0

\* C23, amended: bytes_per_row is the size of the file divided by the
\* number of rows, rounded to the nearest tenth (300 bytes in 3 rows give
\* 100.0), and 0 when there is no row; the answer is a success either way.
C23_BytesPerRowIsRoundedQuotient ==
    resp.kind = "db_size" =>
        LET n == resp.body.registros
            t == resp.body.bytes_per_row.tenths
            e == t * n - 10 * resp.st_size
        IN /\ resp.status = 200
           /\ n = Cardinality(db)
           /\ n = 0 => t = 0
           /\ n > 0 => 2 * e <= n /\ -2 * e <= n
           /\ n = 3 /\ resp.st_size = 300 => t = 1000

\* The size is not a multiple of the number of rows.
C23_Witness ==
    /\ resp.kind = "db_size"
    /\ resp.body.registros = 3
    /\ resp.st_size = 8192

----------------------------------------------------------------------------
(* Properties of the installed version *)

\* The version the marker names is the version of the live executable.
MarkerNamesLive(f) ==
    /\ f[executable_name].kind = "exe"
    /\ f[executable_name].tag = url_tag(get_local_version(f))

\* C24: given that marker and live executable agree at installation, they
\* agree in every state in which no staged artifact exists.
C24_MarkerAgreesWithLive ==
    MarkerNamesLive(fs0) /\ ~exists(fs, temp_update_file)
        => MarkerNamesLive(fs)

----------------------------------------------------------------------------
(* Properties of a request that runs while the loop writes *)

----------------------------------------------------------------------------
(* Progress of the update *)

\* The download URL the updater forms for the published tag names that tag.
Downloadable(tag) == url_tag(lstrip_v(tag)) = tag

\* C25: when the published release differs from the installed version, stays
\* published and can be downloaded, the live executable eventually is the
\* complete artifact of that release, whatever failed before.
C25_UpdateEventuallyLive ==
    Downloadable(remote) /\ remote # url_tag(InstalledVersion)
        => <>(fs[executable_name] = Exe(remote, TRUE))

\* The complete artifact is live and the backup holds a partial artifact of
\* the same release: an interrupted download was promoted, and the update
\* was downloaded again and promoted over it.
C25_Witness ==
    /\ fs[executable_name] = Exe(remote, TRUE)
    /\ fs[backup_name] = Exe(remote, FALSE)

====
